---- MODULE Spec2Model ----
(***************************************************************************)
(* Model of examples/DoReFa-Net/zf-dorefa_pad_sim.py: command-line         *)
(* parsing, the inference / training mode branch, Model._build_graph with  *)
(* its tf.get_variable monkey-patch, run_image with its dump files, and    *)
(* the training configuration handed to SyncMultiGPUTrainer.               *)
(*                                                                         *)
(* Strings the script takes apart (--dorefa, --load, --gpu) are sequences  *)
(* of Unicode code points. An optional value is <<>> for Python's None and *)
(* <<v>> for the value v.                                                  *)
(***************************************************************************)
EXTENDS Integers, Sequences, FiniteSets, TLC

VARIABLES
  argv,             \* the command line as given (absent flags are None)
  args,             \* argparse namespace after parse_args(), NoArgs before
  pc,               \* next statement of the script
  mode,             \* "none", "infer" (run_image) or "train"
  exc,              \* the uncaught exception that ended the process, or NoExc
  BITW, BITA, BITG, \* module globals
  environ,          \* os.environ['CUDA_VISIBLE_DEVICES'], None when unset
  model,            \* number of Model() objects constructed
  session_init,     \* the session initialiser built from --load
  tf_get_variable,  \* tf.get_variable: number of new_get_variable wrappers around the original
  old_get_variable, \* local of the running _build_graph call: <<getter>>, <<>> outside a call
  dorefa,           \* arguments of the latest get_dorefa call, <<>> before the first
  layer_i,          \* 0-based index of the next layer call of the running _build_graph
  towers,           \* number of _build_graph calls that returned
  graph,            \* variables created so far, as returned to the layers
  config,           \* TrainConfig, NoConfig before get_config(); max_epoch is
                    \* <<n>> when the script passed max_epoch=n, <<>> otherwise
  k,                \* 0-based index in inputs of the image being processed
  img,              \* local img of run_image
  outputs,          \* local outputs of run_image
  i,                \* loop variable of the layer-dump loop
  files,            \* files written by data.mat_dump_*: path -> content
  log               \* run_image's externally visible operations, in order

vars == <<argv, args, pc, mode, exc, BITW, BITA, BITG, environ, model,
          session_init, tf_get_variable, old_get_variable, dorefa, layer_i,
          towers, graph, config, k, img, outputs, i,
          files, log>>

\* Python's None; a value v that may be None is held as <<v>>
None == <<>>
\* no exception raised
NoExc == [type |-> "none", line |-> 0]
\* no array: what cv2.imread returns for a file it cannot decode
NoImg == [pixels |-> "", stage |-> "None"]
\* no session initialiser
NoInit == [kind |-> "None", path |-> None]
\* get_config() has not run
NoConfig == [dataset |-> "none", model |-> 0, step_per_epoch |-> 0,
             max_epoch |-> <<>>, nr_tower |-> 0, session_init |-> NoInit]
\* parse_args() has not run
NoArgs == [gpu |-> None, load |-> None, dorefa |-> None, run |-> None]

\* ---------------------------------------------------------------- bounds
MaxImages == 2

\* ------------------------------------------------------- string helpers
\* code point of the characters the literals below are written with
Ord(c) ==
  CASE c = "0" -> 48 [] c = "1" -> 49 [] c = "2" -> 50 [] c = "3" -> 51
    [] c = "4" -> 52 [] c = "5" -> 53 [] c = "6" -> 54 [] c = "7" -> 55
    [] c = "8" -> 56 [] c = "9" -> 57 [] c = "," -> 44 [] c = "." -> 46
    [] c = " " -> 32 [] c = "\t" -> 9 [] c = "_" -> 95 [] c = "+" -> 43
    [] c = "-" -> 45 [] c = "c" -> 99 [] c = "k" -> 107 [] c = "n" -> 110
    [] c = "p" -> 112 [] c = "t" -> 116 [] c = "w" -> 119 [] c = "x" -> 120
    [] c = "y" -> 121

\* the string written as a tuple of one-character strings
Chars(s) == [j \in 1..Len(s) |-> Ord(s[j])]

\* the characters int() ignores around a number
IntSpace ==
  {9, 10, 11, 12, 13, 32, 133, 160, 5760} \cup (8192..8202)
    \cup {8232, 8233, 8239, 8287, 12288}

\* the zero of every block of decimal digits int() accepts (Unicode 14,
\* category Nd); the nine characters after each are its digits 1..9
DigitZeros ==
  {48, 1632, 1776, 1984, 2406, 2534, 2662, 2790, 2918, 3046, 3174, 3302,
   3430, 3558, 3664, 3792, 3872, 4160, 4240, 6112, 6160, 6470, 6608, 6784,
   6800, 6992, 7088, 7232, 7248, 42528, 43216, 43264, 43472, 43504, 43600,
   44016, 65296, 66720, 68912, 69734, 69872, 69942, 70096, 70384, 70736,
   70864, 71248, 71360, 71472, 71904, 72016, 72784, 73040, 73120, 92768,
   92864, 93008, 120782, 120792, 120802, 120812, 120822, 123200, 123632,
   125264, 130032}

Digits == UNION {z..(z + 9) : z \in DigitZeros}

DigitVal(c) == c - (CHOOSE z \in DigitZeros : c \in z..(z + 9))

\* str.split(','): the pieces between commas, empty pieces included
Split(s) ==
  LET commas == {j \in 1..Len(s) : s[j] = Ord(",")}
      \* position of the m-th comma; 0 before the first, Len(s)+1 after the last
      at(m) == IF m = 0 THEN 0
               ELSE IF m > Cardinality(commas) THEN Len(s) + 1
               ELSE CHOOSE j \in commas :
                      Cardinality({h \in commas : h < j}) = m - 1
  IN  [m \in 1..(Cardinality(commas) + 1) |->
         SubSeq(s, at(m - 1) + 1, at(m) - 1)]

LStrip(s) ==
  LET keep == {j \in 1..Len(s) : s[j] \notin IntSpace}
  IN  IF keep = {} THEN <<>>
      ELSE SubSeq(s, CHOOSE j \in keep : \A h \in keep : j <= h, Len(s))

RStrip(s) ==
  LET keep == {j \in 1..Len(s) : s[j] \notin IntSpace}
  IN  IF keep = {} THEN <<>>
      ELSE SubSeq(s, 1, CHOOSE j \in keep : \A h \in keep : h <= j)

Strip(s) == RStrip(LStrip(s))

\* value of a run of digits and underscores that starts with a digit other
\* than zero, the underscores skipped
RECURSIVE SignificantVal(_)
SignificantVal(s) ==
  IF s = <<>> THEN 0
  ELSE IF s[Len(s)] = Ord("_") THEN SignificantVal(SubSeq(s, 1, Len(s) - 1))
  ELSE 10 * SignificantVal(SubSeq(s, 1, Len(s) - 1)) + DigitVal(s[Len(s)])

\* value of a run of digits and underscores: leading zeros add nothing
DigitsVal(s) ==
  LET sig == {j \in 1..Len(s) : s[j] \in Digits /\ DigitVal(s[j]) # 0}
  IN  IF sig = {} THEN 0
      ELSE SignificantVal(SubSeq(s, CHOOSE j \in sig : \A h \in sig : j <= h,
                                 Len(s)))

\* int(tok) raises ValueError: the result of a parse that failed
NotInt == <<>>

\* sys.get_int_max_str_digits() of the interpreter (Python >= 3.11), which
\* the script leaves at its default: int() refuses longer digit strings
int_max_str_digits == 4300

\* int(tok) of Python 3: surrounding whitespace ignored, an optional sign,
\* then decimal digits with single underscores allowed between two digits,
\* at most int_max_str_digits digits (leading zeros counted, underscores not);
\* <<n>> for the integer n, NotInt when int() raises
int(tok) ==
  LET t    == Strip(tok)
      sgn  == t # <<>> /\ Head(t) \in {Ord("+"), Ord("-")}
      body == IF sgn THEN Tail(t) ELSE t
      ok   == /\ body # <<>>
              /\ \A j \in 1..Len(body) : body[j] \in Digits \cup {Ord("_")}
              /\ body[1] \in Digits
              /\ body[Len(body)] \in Digits
              /\ \A j \in 1..(Len(body) - 1) :
                   ~(body[j] = Ord("_") /\ body[j + 1] = Ord("_"))
              /\ Cardinality({j \in 1..Len(body) : body[j] \in Digits})
                   <= int_max_str_digits
  IN  IF ~ok THEN NotInt
      ELSE IF sgn /\ Head(t) = Ord("-") THEN <<0 - DigitsVal(body)>>
           ELSE <<DigitsVal(body)>>

\* str.endswith(suffix)
endswith(s, suffix) ==
  /\ Len(s) >= Len(suffix)
  /\ SubSeq(s, Len(s) - Len(suffix) + 1, Len(s)) = suffix

\* truth value of an optional string / list argument: neither None nor empty
Truthy(x) == x # None /\ x[1] # <<>>

\* map(int, args.dorefa.split(',')) unpacked into three names:
\* the triple, or NotInt when a piece is no integer or the count is not 3
ParseDorefa(s) ==
  LET toks == Split(s)
  IN  IF \E j \in 1..Len(toks) : int(toks[j]) = NotInt THEN NotInt
      ELSE IF Len(toks) # 3 THEN NotInt
      ELSE <<int(toks[1])[1], int(toks[2])[1], int(toks[3])[1]>>

\* ------------------------------------------------------------- inputs
S_1_2_4 == Chars(<<"1", ",", "2", ",", "4">>)
S_1_4_32 == Chars(<<"1", ",", "4", ",", "3", "2">>)
S_1_ws2_6 == Chars(<<"1", ",", " ", "\t", "2", " ", ",", "6">>)
S_1_2u0_4 == Chars(<<"1", ",", "2", "_", "0", ",", "+", "4">>)
S_1_arabic3_4 == Chars(<<"1", ",">>) \o <<1635>> \o Chars(<<",", "4">>)
S_1_2 == Chars(<<"1", ",", "2">>)
S_1_2_4_8 == Chars(<<"1", ",", "2", ",", "4", ",", "8">>)
S_1_x_4 == Chars(<<"1", ",", "x", ",", "4">>)
S_1__4 == Chars(<<"1", ",", ",", "4">>)
S_1_2uu0_4 == Chars(<<"1", ",", "2", "_", "_", "0", ",", "4">>)
S_1_u2_4 == Chars(<<"1", ",", "_", "2", ",", "4">>)
\* '1,2,' followed by one zero more than int() converts
S_1_2_long == Chars(<<"1", ",", "2", ",">>) \o [j \in 1..(int_max_str_digits + 1) |-> 48]

DorefaInputs ==
  {None} \cup
  { <<d>> : d \in {S_1_4_32, S_1_ws2_6, S_1_2u0_4, S_1_arabic3_4, S_1_2,
                   S_1_2_4_8, S_1_x_4, S_1__4, S_1_2uu0_4, S_1_u2_4} }

NpySuffix == Chars(<<".", "n", "p", "y">>)
S_w_npy == Chars(<<"w", ".", "n", "p", "y">>)
S_ckpt == Chars(<<"c", "k", "p", "t">>)
S_npy == Chars(<<"n", "p", "y">>)

LoadInputs == {None} \cup { <<l>> : l \in {S_w_npy, NpySuffix, S_ckpt, S_npy} }

GpuInputs ==
  {None} \cup { <<g>> : g \in {<<>>, Chars(<<"0">>), Chars(<<"0", ",", "1">>)} }

\* the file system the script runs on
Paths == {"cat.jpg", "missing.jpg", "notes.txt"}

FS == [p \in Paths |->
        CASE p = "cat.jpg" -> "image"
          [] p = "missing.jpg" -> "absent"
          [] p = "notes.txt" -> "text"]

RunInputs ==
  {None} \cup { <<r>> : r \in UNION {[1..n -> Paths] : n \in 0..MaxImages} }

\* os.path.isfile
isfile(f) == FS[f] # "absent"

\* cv2.imread: the pixels, or None for a file that is no image
imread(f) == IF FS[f] = "image" THEN [pixels |-> f, stage |-> "raw"] ELSE NoImg

\* --------------------------------------------------- program constants
BITW_module == 1
BITA_module == 4
BITG_module == 32

\* mutant: the default repeats the module constants 1, 4, 32
DefaultDorefa_Mut == S_1_4_32

\* argparse default of --dorefa
DefaultDorefa == S_1_2_4

\* mutant: another epoch limit is configured
max_epoch_Mut == 100 + 100

max_epoch == 100
step_per_epoch == 10000

\* nr_tower of a TrainConfig that was given none
default_nr_tower == 1

\* PredictConfig.output_var_names
output_var_names ==
  <<"output", "conv0/output:0", "bn0/bn/add_1:0", "div_1:0", "pool0/MaxPool:0",
    "conv1/output:0", "bn1/bn/add_1:0", "div_2:0", "pool1/MaxPool:0",
    "div_3:0", "div_4:0", "div_5:0", "pool4/MaxPool", "fc0/output:0",
    "bnfc0/bn/add_1:0", "div_6:0", "div_7:0", "fct/output:0">>

inter_layers ==
  <<"conv0", "bn0", "active0", "pool0", "conv1", "bn1", "active1", "pool1",
    "conv2", "conv3", "conv4", "pool4", "fc0", "fc0bn", "fc0active", "fc1",
    "fct">>

\* Python's 0-based subscript
PyIndex(seq, n) == seq[n + 1]

\* mutant: the layer dumps are named after the input image too
LayerDumpPath_Mut(name) ==
  <<"dump", args.run[1][k + 1] \o "." \o name \o ".dat">>

\* paths of the dump files, as path components
InputSimPath == <<".", "dump", "input_sim.dat">>
InputPath == <<".", "dump", "input.dat">>
LayerDumpPath(name) == <<"dump", name \o ".dat">>

\* the layer calls of _build_graph, in order
Layers ==
  << [kind |-> "Conv2D",         scope |-> "conv0", line |-> 106],
     [kind |-> "BatchNorm",      scope |-> "bn0", line |-> 111],
     [kind |-> "MaxPooling",     scope |-> "pool0", line |-> 119],
     [kind |-> "Conv2D",         scope |-> "conv1", line |-> 123],
     [kind |-> "BatchNorm",      scope |-> "bn1", line |-> 128],
     [kind |-> "MaxPooling",     scope |-> "pool1", line |-> 136],
     [kind |-> "Conv2D",         scope |-> "conv2", line |-> 140],
     [kind |-> "BatchNorm",      scope |-> "bn2", line |-> 142],
     [kind |-> "Conv2D",         scope |-> "conv3", line |-> 147],
     [kind |-> "BatchNorm",      scope |-> "bn3", line |-> 149],
     [kind |-> "Conv2D",         scope |-> "conv4", line |-> 154],
     [kind |-> "BatchNorm",      scope |-> "bn4", line |-> 156],
     [kind |-> "MaxPooling",     scope |-> "pool4", line |-> 161],
     [kind |-> "FullyConnected", scope |-> "fc0", line |-> 165],
     [kind |-> "BatchNorm",      scope |-> "bnfc0", line |-> 170],
     [kind |-> "FullyConnected", scope |-> "fc1", line |-> 178],
     [kind |-> "BatchNorm",      scope |-> "bnfc1", line |-> 180],
     [kind |-> "FullyConnected", scope |-> "fct", line |-> 184] >>

\* names a layer passes to tf.get_variable (use_bias=False: no 'b')
LayerVarNames(kind) ==
  CASE kind = "Conv2D" -> {"W"}
    [] kind = "FullyConnected" -> {"W"}
    [] kind = "BatchNorm" -> {"beta", "gamma"}
    [] kind = "MaxPooling" -> {}

\* fw of get_dorefa: the quantised tensor of v
fw(v) == [v EXCEPT !.fw = @ + 1]

\* tf.get_variable when it is wrapped by `depth` new_get_variable closures:
\* each closure calls the getter it saved and applies fw to a variable named 'W'
RECURSIVE new_get_variable(_, _, _, _)
new_get_variable(depth, tower, scope, name) ==
  IF depth = 0
  THEN [tower |-> tower, scope |-> scope, name |-> name, fw |-> 0]
  ELSE LET v == new_get_variable(depth - 1, tower, scope, name)
       IN  IF name # "W" THEN v ELSE fw(v)

\* ------------------------------------------------------------- helpers
Raise(type, line) == [type |-> type, line |-> line]

WriteFile(fs, path, content) ==
  [p \in DOMAIN fs \cup {path} |-> IF p = path THEN content ELSE fs[p]]

\* data.mat_dump_hex / mat_dump_int / mat_dump_float: (re)writes the file at path
mat_dump(fs, path, content) == WriteFile(fs, path, content)

DumpEvent(path, content) == [op |-> "dump", path |-> path, data |-> content]

\* mutant: the offset that skips outputs[0] is lost
DumpedOutput_Mut(n) == n

\* index into outputs of the array dumped for inter_layers[n]
DumpedOutput(n) == n + 1

\* predict_func([img]): one array per name of output_var_names, in order
predict_func(image, n) ==
  [j \in 1..Len(output_var_names) |->
     [var |-> output_var_names[j], img |-> n, of |-> image.pixels]]

\* transformers.augment(img)[np.newaxis] followed by np.round
transform(image) == [image EXCEPT !.stage = "224x224 rounded"]

\* the command lines explored: every combination of the values above, and
\* --gpu 0 --dorefa 1,2,000...0 with more digits than int() converts
ArgvInputs ==
  [gpu : GpuInputs, load : LoadInputs, dorefa : DorefaInputs, run : RunInputs]
    \cup [gpu : {<<Chars(<<"0">>)>>}, load : {None}, dorefa : {<<S_1_2_long>>},
          run : {None}]

\* ---------------------------------------------------------------- Init
Init ==
  /\ argv \in ArgvInputs
  /\ args = NoArgs
  /\ pc = "main"
  /\ mode = "none"
  /\ exc = NoExc
  /\ BITW = BITW_module
  /\ BITA = BITA_module
  /\ BITG = BITG_module
  /\ environ = None
  /\ model = 0
  /\ session_init = NoInit
  /\ tf_get_variable = 0
  /\ old_get_variable = <<>>
  /\ dorefa = <<>>
  /\ layer_i = 0
  /\ towers = 0
  /\ graph = {}
  /\ config = NoConfig
  /\ k = 0
  /\ img = NoImg
  /\ outputs = <<>>
  /\ i = 0
  /\ files = << >>
  /\ log = << >>

\* parser.parse_args(): absent flags are None, --dorefa has a default
parse_args(a) ==
  [a EXCEPT !.dorefa = IF @ = None THEN <<DefaultDorefa>> ELSE @]

\* lines 346-359: parse the command line, set the bit-width globals and the
\* visible devices
Main_ParseArgs ==
  /\ pc = "main"
  /\ LET a == parse_args(argv)
         t == ParseDorefa(a.dorefa[1])
     IN  /\ args' = a
         /\ IF t = NotInt
            THEN /\ exc' = Raise("ValueError", 356)
                 /\ pc' = "aborted"
                 /\ UNCHANGED <<BITW, BITA, BITG, environ>>
            ELSE /\ BITW' = t[1]
                 /\ BITA' = t[2]
                 /\ BITG' = t[3]
                 /\ environ' = IF Truthy(a.gpu) THEN a.gpu ELSE environ
                 /\ pc' = "branch"
                 /\ exc' = exc
  /\ UNCHANGED <<argv, mode, model, session_init, tf_get_variable,
                 old_get_variable, dorefa, layer_i, towers, graph, config,
                 k, img, outputs, i, files, log>>

\* lines 361-363: inference mode: the extension check, then Model(),
\* np.load and ParamRestore, then the call of run_image
Main_Run ==
  /\ pc = "branch"
  /\ Truthy(args.run)
  /\ IF args.load = None
     THEN /\ exc' = Raise("AttributeError", 362)
          /\ pc' = "aborted"
          /\ UNCHANGED <<mode, model, session_init>>
     ELSE IF ~endswith(args.load[1], NpySuffix)
     THEN /\ exc' = Raise("AssertionError", 362)
          /\ pc' = "aborted"
          /\ UNCHANGED <<mode, model, session_init>>
     ELSE /\ model' = model + 1
          /\ session_init' = [kind |-> "ParamRestore", path |-> args.load]
          /\ mode' = "infer"
          /\ pc' = "run_image"
          /\ exc' = exc
  /\ UNCHANGED <<argv, args, BITW, BITA, BITG, environ, tf_get_variable,
                 old_get_variable, dorefa, layer_i, towers, graph, config,
                 k, img, outputs, i, files, log>>

\* lines 366 and 265-292: get_config()
get_config ==
  /\ pc = "branch"
  /\ ~Truthy(args.run)
  /\ model' = model + 1
  /\ config' = [dataset |-> "train", model |-> model + 1,
                step_per_epoch |-> step_per_epoch, max_epoch |-> <<max_epoch>>,
                nr_tower |-> default_nr_tower, session_init |-> NoInit]
  /\ mode' = "train"
  /\ pc' = "config"
  /\ UNCHANGED <<argv, args, exc, BITW, BITA, BITG, environ, session_init,
                 tf_get_variable, old_get_variable, dorefa, layer_i, towers,
                 graph, k, img, outputs, i, files, log>>

\* lines 367-371: the overrides from --load and --gpu, then
\* SyncMultiGPUTrainer(config).train() starts building the towers
Main_Train ==
  /\ pc = "config"
  /\ LET si == IF Truthy(args.load)
               THEN [kind |-> "SaverRestore", path |-> args.load]
               ELSE config.session_init
         nt == IF Truthy(args.gpu) THEN Len(Split(args.gpu[1]))
               ELSE config.nr_tower
     IN  /\ config' = [config EXCEPT !.session_init = si, !.nr_tower = nt]
         /\ session_init' = si
  /\ pc' = "build"
  /\ UNCHANGED <<argv, args, mode, exc, BITW, BITA, BITG, environ, model,
                 tf_get_variable, old_get_variable, dorefa, layer_i, towers,
                 graph, k, img, outputs, i, files, log>>

\* number of _build_graph calls the running mode makes
TowersWanted == IF mode = "train" THEN config.nr_tower ELSE 1

\* lines 76-101: _build_graph up to the first layer: get_dorefa, and
\* tf.get_variable replaced by a closure over the getter found
BuildGraph_Enter ==
  /\ pc = "build"
  /\ dorefa' = <<BITW, BITA, BITG>>
  /\ old_get_variable' = <<tf_get_variable>>
  /\ tf_get_variable' = tf_get_variable + 1
  /\ layer_i' = 0
  /\ pc' = "layers"
  /\ UNCHANGED <<argv, args, mode, exc, BITW, BITA, BITG, environ, model,
                 session_init, towers, graph, config, k,
                 img, outputs, i, files, log>>

\* lines 103-185: one layer call; its variables come from tf.get_variable
BuildGraph_Layer ==
  /\ pc = "layers"
  /\ layer_i < Len(Layers)
  /\ LET l == PyIndex(Layers, layer_i)
     IN  graph' = graph \cup
           { new_get_variable(tf_get_variable, towers, l.scope, n) :
               n \in LayerVarNames(l.kind) }
  /\ layer_i' = layer_i + 1
  /\ UNCHANGED <<argv, args, pc, mode, exc, BITW, BITA, BITG, environ, model,
                 session_init, tf_get_variable, old_get_variable, dorefa,
                 towers, config, k, img, outputs, i,
                 files, log>>

\* a layer call raises: nothing catches it, the call and the process end
BuildGraph_Raise ==
  /\ pc = "layers"
  /\ layer_i < Len(Layers)
  /\ exc' = Raise("LayerError", PyIndex(Layers, layer_i).line)
  /\ old_get_variable' = <<>>
  /\ pc' = "aborted"
  /\ UNCHANGED <<argv, args, mode, BITW, BITA, BITG, environ, model,
                 session_init, tf_get_variable, dorefa, layer_i, towers,
                 graph, config, k, img, outputs, i, files, log>>

\* lines 186-205: tf.get_variable restored, the costs added, the call returns.
\* At "train" the towers are built and the framework's training loop takes
\* over; that loop is outside this program and is not part of the model.
BuildGraph_Exit ==
  /\ pc = "layers"
  /\ layer_i = Len(Layers)
  /\ tf_get_variable' = old_get_variable[1]
  /\ old_get_variable' = <<>>
  /\ towers' = towers + 1
  /\ pc' = IF towers + 1 < TowersWanted THEN "build"
           ELSE IF mode = "train" THEN "train" ELSE "for"
  /\ UNCHANGED <<argv, args, mode, exc, BITW, BITA, BITG, environ, model,
                 session_init, dorefa, layer_i, graph, config, k, img,
                 outputs, i, files, log>>

\* lines 294-320: run_image up to the loop; get_predict_func builds the graph
run_image ==
  /\ pc = "run_image"
  /\ pc' = "build"
  /\ UNCHANGED <<argv, args, mode, exc, BITW, BITA, BITG, environ, model,
                 session_init, tf_get_variable, old_get_variable, dorefa,
                 layer_i, towers, graph, config, k, img,
                 outputs, i, files, log>>

inputs == args.run[1]

\* line 321: the loop takes the next path
RI_For ==
  /\ pc = "for"
  /\ k < Len(inputs)
  /\ pc' = "isfile"
  /\ UNCHANGED <<argv, args, mode, exc, BITW, BITA, BITG, environ, model,
                 session_init, tf_get_variable, old_get_variable, dorefa,
                 layer_i, towers, graph, config, k, img,
                 outputs, i, files, log>>

\* lines 321 and 364: the list is exhausted, run_image returns, sys.exit()
RI_Return ==
  /\ pc = "for"
  /\ k = Len(inputs)
  /\ pc' = "exited"
  /\ UNCHANGED <<argv, args, mode, exc, BITW, BITA, BITG, environ, model,
                 session_init, tf_get_variable, old_get_variable, dorefa,
                 layer_i, towers, graph, config, k, img,
                 outputs, i, files, log>>

\* mutant: the existence check is missing
RI_AssertIsFile_Mut ==
  /\ pc = "isfile"
  /\ pc' = "imread"
  /\ UNCHANGED <<argv, args, mode, exc, BITW, BITA, BITG, environ, model,
                 session_init, tf_get_variable, old_get_variable, dorefa,
                 layer_i, towers, graph, config, k, img,
                 outputs, i, files, log>>

\* line 322: assert os.path.isfile(f)
RI_AssertIsFile ==
  /\ pc = "isfile"
  /\ IF isfile(PyIndex(inputs, k))
     THEN pc' = "imread" /\ exc' = exc
     ELSE pc' = "aborted" /\ exc' = Raise("AssertionError", 322)
  /\ UNCHANGED <<argv, args, mode, BITW, BITA, BITG, environ, model,
                 session_init, tf_get_variable, old_get_variable, dorefa,
                 layer_i, towers, graph, config, k, img,
                 outputs, i, files, log>>

\* line 323: img = cv2.imread(f).astype('float32')
RI_Read ==
  /\ pc = "imread"
  /\ LET f == PyIndex(inputs, k)
         r == imread(f)
     IN  IF r = NoImg
         THEN /\ pc' = "aborted"
              /\ exc' = Raise("AttributeError", 323)
              /\ UNCHANGED <<img, log>>
         ELSE /\ img' = [r EXCEPT !.stage = "float32"]
              /\ log' = Append(log, [op |-> "read", img |-> k, path |-> f])
              /\ pc' = "assert_img"
              /\ exc' = exc
  /\ UNCHANGED <<argv, args, mode, BITW, BITA, BITG, environ, model,
                 session_init, tf_get_variable, old_get_variable, dorefa,
                 layer_i, towers, graph, config, k,
                 outputs, i, files>>

\* lines 324-329: assert img is not None, then the transformers and np.round
RI_Transform ==
  /\ pc = "assert_img"
  /\ IF img = NoImg
     THEN /\ pc' = "aborted"
          /\ exc' = Raise("AssertionError", 324)
          /\ img' = img
     ELSE /\ img' = transform(img)
          /\ pc' = "dump_inputs"
          /\ exc' = exc
  /\ UNCHANGED <<argv, args, mode, BITW, BITA, BITG, environ, model,
                 session_init, tf_get_variable, old_get_variable, dorefa,
                 layer_i, towers, graph, config, k,
                 outputs, i, files, log>>

\* lines 330-331: the two dumps of the network input
RI_DumpInputs ==
  /\ pc = "dump_inputs"
  /\ LET hex == [var |-> "input hex", img |-> k, of |-> img.pixels]
         int_ == [var |-> "input int", img |-> k, of |-> img.pixels]
     IN  /\ files' = mat_dump(mat_dump(files, InputSimPath, hex), InputPath, int_)
         /\ log' = log \o <<DumpEvent(InputSimPath, hex), DumpEvent(InputPath, int_)>>
  /\ pc' = "predict"
  /\ UNCHANGED <<argv, args, mode, exc, BITW, BITA, BITG, environ, model,
                 session_init, tf_get_variable, old_get_variable, dorefa,
                 layer_i, towers, graph, config, k, img,
                 outputs, i>>

\* lines 332-333: outputs = predict_func([img])
RI_Predict ==
  /\ pc = "predict"
  /\ outputs' = predict_func(img, k)
  /\ log' = Append(log, [op |-> "predict", img |-> k, path |-> img.pixels])
  /\ i' = 0
  /\ pc' = "dump_layers"
  /\ UNCHANGED <<argv, args, mode, exc, BITW, BITA, BITG, environ, model,
                 session_init, tf_get_variable, old_get_variable, dorefa,
                 layer_i, towers, graph, config, k, img,
                 files>>

\* line 332: the session run raises (a framework or device error)
RI_PredictRaises ==
  /\ pc = "predict"
  /\ pc' = "aborted"
  /\ exc' = Raise("PredictError", 332)
  /\ UNCHANGED <<argv, args, mode, BITW, BITA, BITG, environ, model,
                 session_init, tf_get_variable, old_get_variable, dorefa,
                 layer_i, towers, graph, config, k, img,
                 outputs, i, files, log>>

\* lines 336-337: one iteration of the layer-dump loop
RI_DumpLayer ==
  /\ pc = "dump_layers"
  /\ i < Len(inter_layers)
  /\ LET name == PyIndex(inter_layers, i)
         path == LayerDumpPath(name)
         data == PyIndex(outputs, DumpedOutput(i))
     IN  /\ files' = mat_dump(files, path, data)
         /\ log' = Append(log, DumpEvent(path, data))
  /\ i' = i + 1
  /\ UNCHANGED <<argv, args, pc, mode, exc, BITW, BITA, BITG, environ, model,
                 session_init, tf_get_variable, old_get_variable, dorefa,
                 layer_i, towers, graph, config, k, img,
                 outputs>>

\* lines 338-343: the top-10 classes of outputs[0] are printed
RI_Print ==
  /\ pc = "dump_layers"
  /\ i = Len(inter_layers)
  /\ log' = Append(log, [op |-> "print", img |-> k, path |-> PyIndex(inputs, k),
                         data |-> PyIndex(outputs, 0)])
  /\ k' = k + 1
  /\ pc' = "for"
  /\ UNCHANGED <<argv, args, mode, exc, BITW, BITA, BITG, environ, model,
                 session_init, tf_get_variable, old_get_variable, dorefa,
                 layer_i, towers, graph, config, img,
                 outputs, i, files>>

Next ==
  \/ Main_ParseArgs
  \/ Main_Run
  \/ get_config
  \/ Main_Train
  \/ BuildGraph_Enter
  \/ BuildGraph_Layer
  \/ BuildGraph_Raise
  \/ BuildGraph_Exit
  \/ run_image
  \/ RI_For
  \/ RI_Return
  \/ RI_AssertIsFile
  \/ RI_Read
  \/ RI_Transform
  \/ RI_DumpInputs
  \/ RI_Predict
  \/ RI_PredictRaises
  \/ RI_DumpLayer
  \/ RI_Print

Spec == Init /\ [][Next]_vars


\* ======================================================= the claims
\* an inference-mode invocation that got past the bit-width parsing
Inference == pc \notin {"main", "branch"} /\ Truthy(args.run) /\ exc.line # 356

\* image index an event of the log belongs to
EvImg(e) == IF e.op = "dump" THEN e.data.img ELSE e.img

\* the events of image n
EventsOf(n) == {j \in DOMAIN log : EvImg(log[j]) = n}

\* the dump events of image n that write the file at path
DumpsOf(n, path) ==
  {j \in DOMAIN log : log[j].op = "dump" /\ log[j].data.img = n /\ log[j].path = path}

\* the file lies in the directory dump/
UnderDump(path) ==
  \/ Len(path) = 2 /\ path[1] = "dump"
  \/ Len(path) = 3 /\ path[1] = "." /\ path[2] = "dump"

\* the 19 dump files
LayerPaths == {<<"dump", inter_layers[m] \o ".dat">> : m \in DOMAIN inter_layers}
InputPaths == {<<".", "dump", "input_sim.dat">>, <<".", "dump", "input.dat">>}
DumpPaths == InputPaths \cup LayerPaths

\* C1: whenever --run is supplied the script never builds the training
\* configuration and never starts the trainer (as claimed).
C1_RunNeverTrains ==
  argv.run # None =>
    /\ config = NoConfig
    /\ mode # "train"
    /\ pc \notin {"config", "train"}

\* what --dorefa values of the command lines explored stand for
C2_Expected(d) ==
  IF d = <<>> THEN <<1, 2, 4>>
  ELSE IF d[1] = <<49, 44, 52, 44, 51, 50>> THEN <<1, 4, 32>>
  ELSE IF d[1] = <<49, 44, 32, 9, 50, 32, 44, 54>> THEN <<1, 2, 6>>
  ELSE IF d[1] = <<49, 44, 50, 95, 48, 44, 43, 52>> THEN <<1, 20, 4>>
  ELSE IF d[1] = <<49, 44, 1635, 44, 52>> THEN <<1, 3, 4>>
  ELSE <<>>

\* C2: the bit-widths every _build_graph call hands to get_dorefa are the
\* integers of --dorefa, (1, 2, 4) when the flag is absent and never the
\* module constants in that case; the globals are set before any Model is
\* constructed; a value that is not three integers ends the process with
\* nothing built, configured, predicted or written.
C2_BitWidths ==
  LET want == C2_Expected(argv.dorefa)
  IN  /\ want = <<>> =>
           /\ pc \in {"main", "aborted"}
           /\ pc = "aborted" => exc = [type |-> "ValueError", line |-> 356]
           /\ model = 0 /\ mode = "none" /\ config = NoConfig
           /\ <<BITW, BITA, BITG>> = <<1, 4, 32>> /\ environ = <<>>
           /\ dorefa = <<>> /\ graph = {} /\ files = << >> /\ log = << >>
      /\ want # <<>> => exc.type # "ValueError"
      /\ (model > 0 \/ mode # "none") => <<BITW, BITA, BITG>> = want /\ want # <<>>
      /\ dorefa # <<>> => dorefa = want
      /\ (argv.dorefa = None /\ dorefa # <<>>) =>
           dorefa = <<1, 2, 4>> /\ dorefa # <<1, 4, 32>>

C2_Witness ==
  /\ argv.dorefa = None
  /\ dorefa = <<1, 2, 4>>
  /\ towers >= 1
  /\ mode = "infer"

\* C3: for every image processed to completion each of the 17 layer files
\* dump/<name>.dat was written exactly once, the file of inter_layers[i]
\* received output i+1 of that image, every output 1..17 was dumped exactly
\* once and output 0 never; all dumps lie under dump/; the two input dumps of
\* an image are written before its prediction runs.
C3_PerLayerDumps ==
  /\ Len(inter_layers) = 17
  /\ Len(output_var_names) = Len(inter_layers) + 1
  /\ \A n \in 0..(k - 1) :
       /\ \A m \in 1..17 :
            LET d == DumpsOf(n, <<"dump", inter_layers[m] \o ".dat">>)
            IN  /\ Cardinality(d) = 1
                /\ \A j \in d : log[j].data.var = output_var_names[m + 1]
       /\ \A v \in 2..18 :
            Cardinality({j \in EventsOf(n) : log[j].op = "dump"
                           /\ log[j].data.var = output_var_names[v]}) = 1
       /\ Cardinality(DumpsOf(n, <<"dump", "conv0.dat">>)) = 1
       /\ \A j \in DumpsOf(n, <<"dump", "conv0.dat">>) :
            log[j].data.var = "conv0/output:0"
       /\ \A j \in DumpsOf(n, <<"dump", "active0.dat">>) :
            log[j].data.var = "div_1:0"
       /\ \A j \in DumpsOf(n, <<"dump", "fct.dat">>) :
            log[j].data.var = "fct/output:0"
  /\ \A j \in DOMAIN log :
       log[j].op = "dump" =>
         /\ log[j].data.var # "output"
         /\ UnderDump(log[j].path)
  /\ \A j \in DOMAIN log :
       log[j].op = "predict" =>
         \A q \in InputPaths :
           \E a \in 1..(j - 1) :
             /\ log[a].op = "dump"
             /\ log[a].path = q
             /\ log[a].data.img = log[j].img

C3_Witness ==
  /\ pc = "exited"
  /\ mode = "infer"
  /\ k = 2
  /\ Cardinality(DumpsOf(1, <<"dump", "fct.dat">>)) = 1

\* C4: an inference-mode invocation whose --load does not end in '.npy'
\* (or is absent) ends with an assertion failure at the extension check,
\* with no model built, no weights loaded, nothing read and nothing
\* written (as claimed).
C4_ExtensionAssert ==
  (Inference /\ (args.load = None \/ ~endswith(args.load[1], NpySuffix))) =>
    /\ pc = "aborted"
    /\ exc = [type |-> "AssertionError", line |-> 362]
    /\ model = 0 /\ session_init = NoInit /\ towers = 0
    /\ log = << >> /\ files = << >>

\* C5: run_image takes the paths in the given order, one at a time; a path
\* is read only after it was found to be a file; when path k is no file the
\* process ends with the assertion failure of line 322, nothing was read,
\* dumped or predicted for path k or a later one, nothing runs afterwards,
\* and paths before k are complete (read, 19 dumps, prediction, print).
C5_FileNotFound ==
  /\ \A a, b \in DOMAIN log : a < b => EvImg(log[a]) <= EvImg(log[b])
  /\ \A j \in DOMAIN log :
       /\ EvImg(log[j]) <= k
       /\ EvImg(log[j]) < Len(args.run[1])
       /\ FS[args.run[1][EvImg(log[j]) + 1]] # "absent"
       /\ log[j].op = "read" => log[j].path = args.run[1][log[j].img + 1]
  /\ \A n \in 0..(k - 1) :
       /\ Cardinality(EventsOf(n)) = 22
       /\ Cardinality({j \in EventsOf(n) : log[j].op = "read"}) = 1
       /\ Cardinality({j \in EventsOf(n) : log[j].op = "predict"}) = 1
       /\ Cardinality({j \in EventsOf(n) : log[j].op = "print"}) = 1
  /\ pc \in {"imread", "assert_img", "dump_inputs", "predict", "dump_layers"} =>
       FS[args.run[1][k + 1]] # "absent"
  /\ (mode = "infer" /\ towers = 1 /\ pc \notin {"for", "isfile", "exited"}
        /\ k < Len(args.run[1]) /\ FS[args.run[1][k + 1]] = "absent") =>
       /\ pc = "aborted"
       /\ exc = [type |-> "AssertionError", line |-> 322]
       /\ EventsOf(k) = {}
  /\ exc = [type |-> "AssertionError", line |-> 322] =>
       /\ pc = "aborted"
       /\ FS[args.run[1][k + 1]] = "absent"
  /\ pc = "aborted" => ~ENABLED Next

C5_Witness ==
  /\ exc = [type |-> "AssertionError", line |-> 322]
  /\ k = 1
  /\ Cardinality(EventsOf(0)) = 22
  /\ EventsOf(1) = {}

\* C6 as claimed: in training mode the script configures no bound on the
\* amount of training.
C6_OpenEnded ==
  mode = "train" => config.max_epoch = <<>>

\* C6 as amended: in training mode the script does configure a bound on the
\* amount of training: the TrainConfig it hands to the trainer carries
\* max_epoch = 100 and step_per_epoch = 10000, and the --load / --gpu
\* overrides leave both alone; inference mode ends after the last given image.
C6_ConfiguredBound ==
  /\ mode = "train" =>
       /\ config.max_epoch = <<100>>
       /\ config.step_per_epoch = 10000
  /\ mode # "train" => config = NoConfig
  /\ (mode = "infer" /\ pc = "exited") => k = Len(args.run[1])
  /\ (mode = "infer" /\ pc = "for" /\ k = Len(args.run[1])) => ENABLED RI_Return

\* the trainer is started with the bounded configuration, after the
\* --load and --gpu overrides
C6_Witness ==
  /\ mode = "train"
  /\ pc = "train"
  /\ Truthy(args.load)
  /\ Truthy(args.gpu)
  /\ config.max_epoch = <<100>>
  /\ config.step_per_epoch = 10000

\* C7: outside a _build_graph call tf.get_variable is the original function,
\* however the call ended; wrappers never nest and every 'W' went through
\* fw exactly once (as claimed).
C7_GetterRestored ==
  /\ old_get_variable = <<>> => tf_get_variable = 0
  /\ tf_get_variable <= 1
  /\ \A v \in graph : v.name = "W" => v.fw = 1

\* C8: the 'W' of conv0 and of fct is returned unquantised, the 'W' of every
\* other layer as fw(v), any other variable unchanged (as claimed).
C8_FirstLastUnquantized ==
  \A v \in graph :
    /\ (v.name = "W" /\ v.scope \in {"conv0", "fct"}) => v.fw = 0
    /\ (v.name = "W" /\ v.scope \notin {"conv0", "fct"}) => v.fw = 1
    /\ v.name # "W" => v.fw = 0

\* C9: an existing file that is no image is rejected by the assertion
\* 'img is not None' of line 324, before it is transformed, dumped or
\* predicted (as claimed).
C9_UndecodableAssert ==
  (mode = "infer" /\ towers = 1 /\ k < Len(args.run[1])
     /\ pc \notin {"for", "isfile", "imread"}
     /\ FS[args.run[1][k + 1]] = "text") =>
    /\ pc = "aborted"
    /\ exc = [type |-> "AssertionError", line |-> 324]
    /\ EventsOf(k) = {}

\* C10: the files under dump/ are at most the 19 fixed names whatever the
\* number of images; a file holds what was written to it last; after a
\* completed run over n >= 1 images all 19 files hold data of image n;
\* at any moment the input dumps are of the same image as the layer dumps
\* or of the next one.
C10_DumpOverwrite ==
  /\ Cardinality(DumpPaths) = 19
  /\ DOMAIN files \subseteq DumpPaths
  /\ \A q \in DOMAIN files :
       LET w == {j \in DOMAIN log : log[j].op = "dump" /\ log[j].path = q}
       IN  /\ w # {}
           /\ \E j \in w : (\A h \in w : h <= j) /\ files[q] = log[j].data
  /\ \A j \in DOMAIN log : log[j].op = "dump" => log[j].path \in DOMAIN files
  /\ (mode = "infer" /\ pc = "exited" /\ Len(args.run[1]) >= 1) =>
       /\ DOMAIN files = DumpPaths
       /\ \A q \in DumpPaths : files[q].img = Len(args.run[1]) - 1
       /\ \A q \in DumpPaths : files[q].of = args.run[1][Len(args.run[1])]
  /\ \A q \in DOMAIN files \cap InputPaths, r \in DOMAIN files \cap LayerPaths :
       files[q].img - files[r].img \in {0, 1}

C10_Witness ==
  /\ pc = "aborted"
  /\ DOMAIN files = DumpPaths
  /\ files[<<".", "dump", "input.dat">>].img = 1
  /\ files[<<"dump", "conv0.dat">>].img = 0
  /\ files[<<"dump", "fct.dat">>].img = 0

====
